---- MODULE Spec2Model ----
(***************************************************************************)
(* A model of the paged VSO-Hash of vso_hash.go: the driver (the caller's   *)
(* goroutine inside Write, writePage, finishBlock, sum and Reset), the      *)
(* worker goroutines of run, the buffered task channel, the one-slot        *)
(* result channels and the finalizer that closes the task channel.          *)
(*                                                                         *)
(* Byte strings are sequences of items.  An item is either a raw byte      *)
(* [byte |-> b] or a SHA-256 digest [sha256 |-> s] of the byte string s,    *)
(* which stands for the 32 bytes sha256.Sum256 returns: the digest is a    *)
(* free constructor, so two digests are equal exactly when their inputs    *)
(* are.  ByteLen counts a digest item as 32 bytes.                          *)
(***************************************************************************)
EXTENDS Integers, Sequences, FiniteSets, TLC

\* ---------------------------------------------------------------- bounds
\* PageSize and BlockSize are 64 KiB and 2 MiB in the source; the model runs
\* the same code with the sizes scaled down so that page and block boundaries
\* are crossed within MaxLen bytes.
PageSize == 2
BlockSize == 4
\* Length of the byte stream the caller feeds to a hasher.
MaxLen == 5
\* Largest parallelism passed to NewParallel (and largest GOMAXPROCS).
MaxParallel == 2
\* How many times Sum and Reset are called on one hasher.
MaxSums == 2
MaxResets == 1

\* ------------------------------------------------------- program constants
sha256Size == 32
Size == sha256Size + 1
pagesPerBlock == BlockSize \div PageSize


B(b) == [byte |-> b]
Bytes(s) == [i \in 1..Len(s) |-> B(s[i])]

\* Mutant: the seed with a NUL after its last character, 28 bytes.
seedWithNul ==
  Bytes(<<86, 83, 79, 32, 67, 111, 110, 116, 101, 110, 116, 32, 73, 100, 101,
          110, 116, 105, 102, 105, 101, 114, 32, 83, 101, 101, 100, 0>>)

\* "VSO Content Identifier Seed"
seed ==
  Bytes(<<86, 83, 79, 32, 67, 111, 110, 116, 101, 110, 116, 32, 73, 100, 101,
          110, 116, 105, 102, 105, 101, 114, 32, 83, 101, 101, 100>>)

\* sha256.Sum256 of the byte string s, as one item.
Sum256(s) == [sha256 |-> s]

IsDigest(x) == DOMAIN x = {"sha256"}

RECURSIVE ByteLen(_)
ByteLen(s) ==
  IF s = <<>> THEN 0
  ELSE (IF IsDigest(Head(s)) THEN sha256Size ELSE 1) + ByteLen(Tail(s))

Range(s) == {s[i] : i \in 1..Len(s)}

Last(s) == s[Len(s)]

\* The streams the caller hashes, those of the tests: n bytes that count up
\* from 0 (in[i] = byte(i & 0xff)) and n zero bytes (make([]byte, n)).
Streams(n) == {[i \in 1..n |-> B((i - 1) % 256)], [i \in 1..n |-> B(0)]}

NoResult == <<>>

\* No Sum has been recorded (n = 0 is no parallelism a hasher can have).
NoRun == [in |-> <<>>, out |-> <<>>, n |-> 0, oneShot |-> FALSE, h |-> 0]

VARIABLES
  \* ---- the vsoHash struct
  buffer,      \* v.buffer: the running buffer of the current page
  pageHashes,  \* v.pageHashes: result channels of the current block, in order
  blobID,      \* v.blobID: the running blob id
  tasks,       \* v.tasks: the buffered channel of waiting hash tasks
  closed,      \* whether v.tasks has been closed
  capacity,    \* cap(v.tasks)
  chans,       \* the result channels made by writePage: id -> buffered values
  workers,     \* the goroutines started by NewParallel, by where they are in
               \* run: how many wait to receive, the tasks of those about to
               \* send, how many have returned
  \* ---- the driver: the goroutine that calls into the hasher
  pc,          \* where the driver is
  caller,      \* "user" or "Sum": who drives the hasher (the package-level Sum)
  in,          \* Write's parameter in, re-sliced as the loop goes
  page,        \* writePage's parameter page
  wpRet,       \* where writePage returns to
  fbRet,       \* where finishBlock returns to
  fbIdx,       \* finishBlock's range index into v.pageHashes
  buf,         \* finishBlock's local buf
  writeRet,    \* what Write returns, while it returns: <<n, err>>
  \* ---- the caller's data
  data,        \* the byte stream the caller hashes
  pos,         \* how much of data the caller has written to the hasher
  \* ---- history
  reqN,        \* the argument of the last NewParallel call
  hashers,     \* how many hashers have been constructed
  resets,      \* Reset calls on this hasher
  sumCalls,    \* Sum calls on this hasher since it was constructed or Reset
  sums,        \* what those calls returned, in order
  written,     \* bytes fed to Write since the hasher was constructed or Reset
  writeArg,    \* the argument of the Write call in progress
  finalized,   \* Sum has been called since the hasher was constructed or Reset
  pagesLog,    \* the pages writePage was given since the hasher was constructed
               \* or Reset, in order
  foldLog,     \* the concatenated buffers finishBlock has digested, in order
  fbCalls,     \* finishBlock calls since the hasher was constructed or Reset
  chainAtSum,  \* v.blobID as sum found it before writing the marker, while sum
               \* returns
  ref          \* the first Sum of the first hasher that came to one and was not
               \* Reset afterwards: [in, out, n, oneShot, h], or NoRun

hasherVars == <<buffer, pageHashes, blobID, tasks, closed, capacity, chans, workers>>
driverVars == <<pc, caller, in, page, wpRet, fbRet, fbIdx, buf, writeRet>>
callerVars == <<data, pos>>
histVars == <<reqN, hashers, resets, sumCalls, sums, written, writeArg, finalized,
              pagesLog, foldLog, fbCalls, chainAtSum, ref>>
vars == <<hasherVars, driverVars, callerVars, histVars>>

NoTask == [Input |-> <<>>, Output |-> 0, src |-> "none"]

\* Mutant: every task is given the same result channel.
hashTaskOneOutput(input, output, src) ==
  [Input |-> input, Output |-> IF output = 0 THEN 0 ELSE 1, src |-> src]

\* A hashTask. src records where the Input slice points: a private copy
\* ("copy"), the caller's slice ("in") or v.buffer's array ("buffer").
hashTask(input, output, src) == [Input |-> input, Output |-> output, src |-> src]

\* The goroutines NewParallel starts: parallelism of them, each at the top of
\* run's range loop.
StartWorkers(parallelism) == [recv |-> parallelism, send |-> {}, exit |-> 0]

\* How many goroutines run has been started in.
Started == workers.recv + Cardinality(workers.send) + workers.exit

\* The program before any hasher is made, with a stream of n bytes to hash.
Start(n) ==
  /\ buffer = <<>> /\ pageHashes = <<>> /\ blobID = <<>>
  /\ tasks = <<>> /\ closed = FALSE /\ capacity = 0
  /\ chans = <<>> /\ workers = StartWorkers(0)
  /\ pc = "none" /\ caller = "user" /\ in = <<>>
  /\ page = NoTask /\ wpRet = "none" /\ fbRet = "none" /\ fbIdx = 0 /\ buf = <<>>
  /\ writeRet = NoResult
  /\ data \in Streams(n) /\ pos = 0
  /\ reqN = 0 /\ hashers = 0 /\ resets = 0 /\ sumCalls = 0 /\ sums = <<>>
  /\ written = <<>> /\ writeArg = <<>> /\ finalized = FALSE
  /\ pagesLog = <<>> /\ foldLog = <<>> /\ fbCalls = 0 /\ chainAtSum = <<>>
  /\ ref = NoRun

Init == Start(MaxLen)

\* ------------------------------------------------------------ construction

\* Mutant: zero parallelism is let through.
NewParallelRejectsNegative(parallelism) == parallelism < 0

\* NewParallel's check of its argument (the panic).
NewParallelRejects(parallelism) == parallelism <= 0

\* The previous hasher is gone: the program holds no reference to it, its task
\* channel is closed and its goroutines have returned, so nothing of it can
\* act any more and the model's variables are free to hold the next hasher.
Released ==
  /\ pc = "dropped" /\ closed /\ tasks = <<>>
  /\ workers.recv = 0 /\ workers.send = {}

\* The fields of a newly made vsoHash and the driver that holds it; input is
\* what the package-level Sum goes on to write (nothing for the user).
Construct(parallelism, who, input) ==
  /\ buffer' = <<>> /\ pageHashes' = <<>> /\ blobID' = <<>>
  /\ tasks' = <<>> /\ closed' = FALSE /\ capacity' = parallelism
  /\ chans' = <<>>
  /\ workers' = StartWorkers(parallelism)
  /\ caller' = who
  /\ pc' = IF who = "Sum" THEN "Write" ELSE "idle"
  /\ in' = input /\ writeArg' = input /\ written' = input
  /\ pos' = Len(input)
  /\ page' = NoTask /\ wpRet' = "none" /\ fbRet' = "none" /\ fbIdx' = 0 /\ buf' = <<>>
  /\ writeRet' = NoResult
  /\ hashers' = hashers + 1 /\ resets' = 0 /\ sumCalls' = 0 /\ sums' = <<>>
  /\ finalized' = FALSE
  /\ pagesLog' = <<>> /\ foldLog' = <<>> /\ fbCalls' = 0 /\ chainAtSum' = <<>>
  /\ UNCHANGED <<data, ref>>

\* NewParallel(parallelism), called by the user.
NewParallel(parallelism) ==
  /\ pc = "none" \/ Released
  /\ reqN' = parallelism
  /\ IF NewParallelRejects(parallelism)
       THEN /\ pc' = "panic"
            /\ UNCHANGED <<hasherVars, caller, in, page, wpRet, fbRet, fbIdx, buf,
                           writeRet, callerVars, hashers, resets, sumCalls, sums,
                           written, writeArg, finalized, pagesLog, foldLog,
                           fbCalls, chainAtSum, ref>>
       ELSE Construct(parallelism, "user", <<>>)

\* The package-level Sum(in): New() with GOMAXPROCS = procs, then h.Write(in)
\* and h.sum(), which the driver goes on to run; the hasher is dropped when
\* sum returns.
SumFn(procs, input) ==
  /\ pc = "none" \/ Released
  /\ reqN' = procs
  /\ Construct(procs, "Sum", input)

\* Mutant: the finalizer leaves the task channel open.
finalizeKeepsOpen == pc = "dropped" /\ ~closed /\ UNCHANGED vars

\* finalize: the GC finalizer, run once the hasher is unreachable.
finalize ==
  /\ pc = "dropped" /\ ~closed
  /\ closed' = TRUE
  /\ UNCHANGED <<buffer, pageHashes, blobID, tasks, capacity, chans, workers,
                 driverVars, callerVars, histVars>>

\* ------------------------------------------------------------------ workers

\* The result channels something still refers to, given the pending list, the
\* queue and the workers; the others are garbage.
Collect(ch, hashes, queue, ws) ==
  LET live == Range(hashes) \cup {queue[i].Output : i \in 1..Len(queue)}
                \cup {t.Output : t \in ws.send}
  IN  [c \in DOMAIN ch \cap live |-> ch[c]]

\* What a worker sends for a task: sha256.Sum256(task.Input).
runResult(task) == Sum256(task.Input)

\* Mutant: the results go out in the order the workers finish, each on the
\* oldest channel that still waits for its result.
runOutputOldestWaiting(task) ==
  LET waiting == {c \in DOMAIN chans : chans[c] = <<>>}
  IN  IF waiting = {} THEN task.Output
      ELSE CHOOSE c \in waiting : \A d \in waiting : c <= d

\* The channel a worker sends a task's result on.
runOutput(task) == task.Output

\* Mutant: the goroutine that takes a task also strikes the oldest channel off
\* the pending list.
runRecvStrikesPending ==
  /\ workers.recv > 0
  /\ tasks # <<>>
  /\ workers' = [workers EXCEPT !.recv = @ - 1, !.send = @ \cup {Head(tasks)}]
  /\ tasks' = Tail(tasks)
  /\ pageHashes' = IF pageHashes = <<>> THEN <<>> ELSE Tail(pageHashes)
  /\ UNCHANGED <<buffer, blobID, closed, capacity, chans,
                 driverVars, callerVars, histVars>>

\* run, the receive of `for task := range v.tasks`, by one of the waiting
\* goroutines.
runRecv ==
  /\ workers.recv > 0
  /\ tasks # <<>>
  /\ workers' = [workers EXCEPT !.recv = @ - 1, !.send = @ \cup {Head(tasks)}]
  /\ tasks' = Tail(tasks)
  /\ UNCHANGED <<buffer, pageHashes, blobID, closed, capacity, chans,
                 driverVars, callerVars, histVars>>

\* Mutant: the result channels have no buffer, so that a send goes through only
\* when finishBlock is at the receive on that channel.
runSendUnbuffered(t) ==
  /\ t \in workers.send
  /\ pc = "finishBlock" /\ fbIdx <= Len(pageHashes)
  /\ pageHashes[fbIdx] = runOutput(t)
  /\ Len(chans[runOutput(t)]) < 1
  /\ workers' = [workers EXCEPT !.recv = @ + 1, !.send = @ \ {t}]
  /\ chans' = [chans EXCEPT ![runOutput(t)] = Append(@, runResult(t))]
  /\ UNCHANGED <<buffer, pageHashes, blobID, tasks, closed, capacity,
                 driverVars, callerVars, histVars>>

\* run, `task.Output <- sha256.Sum256(task.Input)` by the goroutine that holds
\* task t: the channel has one slot and this is its only send, so the send
\* does not block.  The goroutine goes back to the receive.
runSend(t) ==
  /\ t \in workers.send
  /\ LET o == runOutput(t)
         ws == [workers EXCEPT !.recv = @ + 1, !.send = @ \ {t}]
     IN  /\ o \in DOMAIN chans
         /\ Len(chans[o]) < 1
         /\ workers' = ws
         /\ chans' = Collect([chans EXCEPT ![o] = Append(@, runResult(t))],
                             pageHashes, tasks, ws)
  /\ UNCHANGED <<buffer, pageHashes, blobID, tasks, closed, capacity,
                 driverVars, callerVars, histVars>>

\* run, the range loop ends for a waiting goroutine: the channel is closed and
\* drained.
runExit ==
  /\ workers.recv > 0
  /\ tasks = <<>> /\ closed
  /\ workers' = [workers EXCEPT !.recv = @ - 1, !.exit = @ + 1]
  /\ UNCHANGED <<buffer, pageHashes, blobID, tasks, closed, capacity, chans,
                 driverVars, callerVars, histVars>>

\* ------------------------------------------------------------------- Write

\* Mutant: data that fills the page to its last byte is buffered as well.
FitsUpTo(inp, b) == Len(inp) + Len(b) <= PageSize

\* Write, line 91: the data fits within the buffer and does not finish a page.
Fits(inp, b) == Len(inp) + Len(b) < PageSize

\* Mutant: the page is made of the new bytes alone and the buffered bytes are
\* lost.
fillPageFromInput(b, inp) == SubSeq(inp, 1, PageSize - Len(b))

\* Write, lines 98-104: the page made of the buffered bytes and the first
\* PageSize - v.buffer.Len() bytes of in, copied out of the buffer.
fillPage(b, inp) == b \o SubSeq(inp, 1, PageSize - Len(b))

\* Write, line 93: the count Write returns, len(in) of the slice as the loop
\* has left it.
writeCount(inp) == Len(inp)

\* The user calls Write with the next k bytes of the stream.
Write(k) ==
  /\ pc = "idle" /\ caller = "user"
  /\ k \in 0..(Len(data) - pos)
  /\ LET p == SubSeq(data, pos + 1, pos + k)
     IN  /\ in' = p /\ writeArg' = p
         /\ written' = written \o p
  /\ pos' = pos + k
  /\ pc' = "Write"
  /\ UNCHANGED <<hasherVars, caller, page, wpRet, fbRet, fbIdx, buf, writeRet,
                 data, reqN, hashers, resets, sumCalls, sums, finalized,
                 pagesLog, foldLog, fbCalls, chainAtSum, ref>>

\* One pass of Write's for loop, up to its return or its call of writePage.
WriteLoop ==
  /\ pc = "Write"
  /\ IF Fits(in, buffer)
       THEN /\ buffer' = buffer \o in
            /\ writeRet' = <<writeCount(in), "nil">>
            /\ in' = <<>>
            /\ pc' = "WriteRet"
            /\ UNCHANGED <<page, wpRet>>
       ELSE IF Len(buffer) > 0
         THEN /\ buffer' = fillPage(buffer, in)
              /\ in' = SubSeq(in, PageSize - Len(buffer) + 1, Len(in))
              /\ page' = hashTask(buffer', 0, "copy")
              /\ wpRet' = "WriteBuf"
              /\ pc' = "writePage"
              /\ UNCHANGED writeRet
         ELSE /\ page' = hashTask(SubSeq(in, 1, PageSize), 0, "in")
              /\ in' = SubSeq(in, PageSize + 1, Len(in))
              /\ wpRet' = "WriteIn"
              /\ pc' = "writePage"
              /\ UNCHANGED <<buffer, writeRet>>
  /\ UNCHANGED <<pageHashes, blobID, tasks, closed, capacity, chans, workers,
                 caller, fbRet, fbIdx, buf, callerVars, histVars>>

\* Write has returned writeRet for writeArg and the caller goes on: the user
\* to its next call, the package-level Sum to h.sum().
WriteReturn ==
  /\ pc = "WriteRet"
  /\ writeRet' = NoResult /\ writeArg' = <<>>
  /\ pc' = IF caller = "Sum" THEN "sum" ELSE "idle"
  /\ sumCalls' = IF caller = "Sum" THEN sumCalls + 1 ELSE sumCalls
  /\ finalized' = (finalized \/ caller = "Sum")
  /\ UNCHANGED <<hasherVars, caller, in, page, wpRet, fbRet, fbIdx, buf,
                 callerVars, reqN, hashers, resets, sums, written, pagesLog,
                 foldLog, fbCalls, chainAtSum, ref>>

\* --------------------------------------------------- writePage, finishBlock

\* make(chan [sha256.Size]byte, 1): a channel no other channel is.
NewChan == CHOOSE c \in 1..(Cardinality(DOMAIN chans) + 1) : c \notin DOMAIN chans

\* Mutant: the block is finished one page late.
BlockFullLate(hashes) == Len(hashes) = pagesPerBlock + 1

\* writePage, line 121: the block is full.
BlockFull(hashes) == Len(hashes) = pagesPerBlock

\* Mutant: the page hashes are put together last first.
bufWriteFront(bf, b) == <<b>> \o bf

\* finishBlock, line 132: buf.Write(b[:]).
bufWrite(bf, b) == Append(bf, b)

\* Mutant: the earlier blob id is digested without its round marker.
updateBlobIDNoMarker(blob, h) ==
  IF Len(blob) = 0
    THEN seed \o <<h>>
    ELSE <<Sum256(blob)>> \o <<h>>

\* updateBlobID: the blob id after the block hash h.
updateBlobID(blob, h) ==
  IF Len(blob) = 0
    THEN seed \o <<h>>
    ELSE <<Sum256(blob \o <<B(0)>>)>> \o <<h>>

\* The return of writePage to its caller: Write's two call sites (the first
\* goes on to v.buffer.Reset()) and sum's.
AfterWritePage ==
  /\ buffer' = IF wpRet = "WriteBuf" THEN <<>> ELSE buffer
  /\ pc' = IF wpRet = "sum" THEN "sumBlock" ELSE "Write"
  /\ wpRet' = "none"

\* The entry of finishBlock.
EnterFinishBlock(from) ==
  /\ pc' = "finishBlock"
  /\ fbRet' = from
  /\ fbIdx' = 1
  /\ buf' = <<>>
  /\ fbCalls' = fbCalls + 1

\* Mutant: the task channel takes any number of tasks.
CanSendAlways(queue, cap) == TRUE

\* A send on a buffered channel of capacity cap that holds queue goes through;
\* otherwise it blocks (no goroutine of run waits at the receive while tasks
\* are queued).
CanSend(queue, cap) == Len(queue) < cap

\* writePage: the send on v.tasks, which blocks while the channel is full, the
\* append to v.pageHashes and the test for a full block.
writePage ==
  /\ pc = "writePage"
  /\ CanSend(tasks, capacity)
  /\ LET ch == NewChan
     IN  /\ chans' = chans @@ (ch :> <<>>)
         /\ tasks' = Append(tasks, hashTask(page.Input, ch, page.src))
         /\ pageHashes' = Append(pageHashes, ch)
  /\ pagesLog' = Append(pagesLog, page)
  /\ page' = NoTask
  /\ IF BlockFull(pageHashes')
       THEN /\ EnterFinishBlock("writePage")
            /\ UNCHANGED <<buffer, wpRet>>
       ELSE /\ AfterWritePage
            /\ UNCHANGED <<fbRet, fbIdx, buf, fbCalls>>
  /\ UNCHANGED <<blobID, closed, capacity, workers, caller, in,
                 writeRet, callerVars, reqN, hashers, resets, sumCalls, sums,
                 written, writeArg, finalized, foldLog, chainAtSum, ref>>

\* finishBlock, one pass of the range loop: the receive from the page's
\* channel, which blocks until a worker has sent, and buf.Write.
finishBlockRecv ==
  /\ pc = "finishBlock"
  /\ fbIdx <= Len(pageHashes)
  /\ LET ch == pageHashes[fbIdx]
     IN  /\ chans[ch] # <<>>
         /\ buf' = bufWrite(buf, Head(chans[ch]))
         /\ chans' = [chans EXCEPT ![ch] = Tail(@)]
  /\ fbIdx' = fbIdx + 1
  /\ UNCHANGED <<buffer, pageHashes, blobID, tasks, closed, capacity, workers,
                 pc, caller, in, page, wpRet, fbRet, writeRet,
                 callerVars, histVars>>

\* finishBlock after the loop: the block hash goes into the blob id; then the
\* return to writePage (and from there to its caller) or to sum.
finishBlockEnd ==
  /\ pc = "finishBlock"
  /\ fbIdx > Len(pageHashes)
  /\ pageHashes' = <<>>
  /\ blobID' = updateBlobID(blobID, Sum256(buf))
  /\ foldLog' = Append(foldLog, buf)
  /\ chans' = Collect(chans, <<>>, tasks, workers)
  /\ fbRet' = "none" /\ fbIdx' = 0 /\ buf' = <<>>
  /\ IF fbRet = "writePage"
       THEN AfterWritePage
       ELSE pc' = "sumEnd" /\ UNCHANGED <<buffer, wpRet>>
  /\ UNCHANGED <<tasks, closed, capacity, workers, caller, in, page,
                 writeRet, callerVars, reqN, hashers,
                 resets, sumCalls, sums, written, writeArg, finalized,
                 pagesLog, fbCalls, chainAtSum, ref>>

\* ----------------------------------------------------------- Sum, Reset

\* Mutant: the block is finished only when pages are left.
needFinishPagesOnly(hashes, blob) == Len(hashes) > 0

\* sum, line 173: pages are left, or nothing was ever folded.
needFinish(hashes, blob) == Len(hashes) > 0 \/ Len(blob) = 0

\* The marker sum writes to the blob id, line 178.
lastBlockMarker == B(1)

\* Mutant: the last byte of the result is the marker byte of the blob id.
sumValueMarkerLast(blob) == <<Sum256(blob), blob[Len(blob)]>>

\* sum, lines 179-183: the value returned for the blob id (the marker byte
\* included): its SHA-256 and a last byte of 0.
sumValue(blob) == <<Sum256(blob), B(0)>>

\* The user calls Sum (the append to b leaves the hash as sum returned it).
Sum ==
  /\ pc = "idle" /\ caller = "user"
  /\ sumCalls < MaxSums
  /\ sumCalls' = sumCalls + 1
  /\ finalized' = TRUE
  /\ pc' = "sum"
  /\ UNCHANGED <<hasherVars, caller, in, page, wpRet, fbRet, fbIdx, buf, writeRet,
                 callerVars, reqN, hashers, resets, sums, written, writeArg,
                 pagesLog, foldLog, fbCalls, chainAtSum, ref>>

\* sum, lines 168-172: the pending bytes become a page.
sumPage ==
  /\ pc = "sum"
  /\ IF Len(buffer) # 0
       THEN /\ page' = hashTask(buffer, 0, "buffer")
            /\ wpRet' = "sum"
            /\ pc' = "writePage"
       ELSE /\ pc' = "sumBlock"
            /\ UNCHANGED <<page, wpRet>>
  /\ UNCHANGED <<hasherVars, caller, in, fbRet, fbIdx, buf, writeRet,
                 callerVars, histVars>>

\* sum, lines 173-177: the last block is finished off.
sumBlock ==
  /\ pc = "sumBlock"
  /\ IF needFinish(pageHashes, blobID)
       THEN EnterFinishBlock("sum")
       ELSE pc' = "sumEnd" /\ UNCHANGED <<fbRet, fbIdx, buf, fbCalls>>
  /\ UNCHANGED <<hasherVars, caller, in, page, wpRet, writeRet,
                 callerVars, reqN, hashers, resets, sumCalls, sums, written,
                 writeArg, finalized, pagesLog, foldLog, chainAtSum, ref>>

\* sum, lines 178-183: the marker, the last SHA-256 and the return value.
sumEnd ==
  /\ pc = "sumEnd"
  /\ chainAtSum' = blobID
  /\ blobID' = Append(blobID, lastBlockMarker)
  /\ sums' = Append(sums, sumValue(blobID'))
  /\ ref' = IF ref = NoRun /\ sumCalls = 1 /\ resets = 0
              THEN [in |-> written, out |-> sumValue(blobID'), n |-> capacity,
                    oneShot |-> (caller = "Sum"), h |-> hashers]
              ELSE ref
  /\ pc' = "SumRet"
  /\ UNCHANGED <<buffer, pageHashes, tasks, closed, capacity, chans, workers,
                 caller, in, page, wpRet, fbRet, fbIdx, buf, writeRet,
                 callerVars, reqN, hashers, resets, sumCalls, written, writeArg,
                 finalized, pagesLog, foldLog, fbCalls>>

\* sum has returned Last(sums) and the caller goes on: the user to its next
\* call; the package-level Sum returns and its hasher becomes unreachable.
SumReturn ==
  /\ pc = "SumRet"
  /\ chainAtSum' = <<>>
  /\ pc' = IF caller = "Sum" THEN "dropped" ELSE "idle"
  /\ UNCHANGED <<hasherVars, caller, in, page, wpRet, fbRet, fbIdx, buf, writeRet,
                 callerVars, reqN, hashers, resets, sumCalls, sums, written,
                 writeArg, finalized, pagesLog, foldLog, fbCalls, ref>>

\* Mutant: Reset leaves the bytes of the running page in the buffer.
ResetKeepsBuffer ==
  /\ pc = "idle" /\ caller = "user"
  /\ resets < MaxResets
  /\ pageHashes' = <<>> /\ blobID' = <<>> /\ buffer' = buffer
  /\ chans' = Collect(chans, <<>>, tasks, workers)
  /\ resets' = resets + 1
  /\ pos' = 0
  /\ sumCalls' = 0 /\ sums' = <<>> /\ written' = <<>> /\ finalized' = FALSE
  /\ pagesLog' = <<>> /\ foldLog' = <<>> /\ fbCalls' = 0 /\ chainAtSum' = <<>>
  /\ ref' = IF ref.h = hashers THEN NoRun ELSE ref
  /\ UNCHANGED <<tasks, closed, capacity, workers, driverVars, data, reqN,
                 hashers, writeArg>>

\* Reset, called by the user.  The caller starts over with the stream.
Reset ==
  /\ pc = "idle" /\ caller = "user"
  /\ resets < MaxResets
  /\ pageHashes' = <<>> /\ blobID' = <<>> /\ buffer' = <<>>
  /\ chans' = Collect(chans, <<>>, tasks, workers)
  /\ resets' = resets + 1
  /\ pos' = 0
  /\ sumCalls' = 0 /\ sums' = <<>> /\ written' = <<>> /\ finalized' = FALSE
  /\ pagesLog' = <<>> /\ foldLog' = <<>> /\ fbCalls' = 0 /\ chainAtSum' = <<>>
  /\ ref' = IF ref.h = hashers THEN NoRun ELSE ref
  /\ UNCHANGED <<tasks, closed, capacity, workers, driverVars, data, reqN,
                 hashers, writeArg>>

\* The user lets go of the hasher: nothing refers to it any more.
Drop ==
  /\ pc = "idle" /\ caller = "user"
  /\ pc' = "dropped"
  /\ UNCHANGED <<hasherVars, caller, in, page, wpRet, fbRet, fbIdx, buf, writeRet,
                 callerVars, histVars>>

\* ------------------------------------------------------------ specification

Driver ==
  \/ \E n \in -1..MaxParallel : pc = "none" /\ NewParallel(n)
  \/ \E n \in 1..MaxParallel : \E k \in 0..MaxLen :
       pc = "none" /\ SumFn(n, SubSeq(data, 1, k))
  \/ \E k \in 0..MaxLen : Write(k)
  \/ WriteLoop
  \/ WriteReturn
  \/ writePage
  \/ finishBlockRecv
  \/ finishBlockEnd
  \/ Sum
  \/ sumPage
  \/ sumBlock
  \/ sumEnd
  \/ SumReturn
  \/ Reset
  \/ Drop

Workers ==
  \/ runRecv
  \/ \E t \in workers.send : runSend(t)
  \/ runExit

\* One hasher: the user's, or the one of a call of the package-level Sum.
Next == Driver \/ Workers \/ finalize

Spec == Init /\ [][Next]_vars

\* The program goes on to a second hasher once the first one is released.
NextHasher ==
  \/ \E n \in 1..MaxParallel : hashers = 1 /\ Released /\ NewParallel(n)
  \/ \E n \in 1..MaxParallel : \E k \in 0..MaxLen :
       hashers = 1 /\ Released /\ SumFn(n, SubSeq(data, 1, k))

\* The second hasher is there for its first Sum: once the user has that, the
\* only call left is to drop the hasher.
UntilFirstSum ==
  (hashers = 2 /\ pc = "idle" /\ finalized) =>
    (pc' \in {"idle", "dropped"} /\ resets' = resets)

NextSeq == NextHasher \/ (Next /\ UntilFirstSum)

\* Two hashers, one after the other, over the same stream.
SpecSeq == Init /\ [][NextSeq]_vars

\* The goroutines are scheduled and the garbage collector comes to run the
\* finalizer of a hasher nothing refers to.
FairSpec == Spec /\ WF_vars(Workers) /\ WF_vars(finalize)

\* A stream long enough for Write to fold two blocks and go on.
LongLen == 2 * pagesPerBlock * PageSize + 1

InitLong == Start(LongLen)

\* One hasher that is written the long stream and then dropped.
NextLong ==
  \/ \E n \in 1..MaxParallel : pc = "none" /\ NewParallel(n)
  \/ \E k \in 0..LongLen : Write(k)
  \/ WriteLoop
  \/ WriteReturn
  \/ writePage
  \/ finishBlockRecv
  \/ finishBlockEnd
  \/ Drop
  \/ Workers
  \/ finalize

SpecLong == InitLong /\ [][NextLong]_vars

\* The steps of the calling goroutine inside Write and Sum.
Calls ==
  \/ WriteLoop
  \/ WriteReturn
  \/ writePage
  \/ finishBlockRecv
  \/ finishBlockEnd
  \/ sumPage
  \/ sumBlock
  \/ sumEnd
  \/ SumReturn

\* The goroutines are scheduled: the workers, and the caller's while it is
\* inside a call.
FairCalls == Spec /\ WF_vars(Workers) /\ WF_vars(Calls)

\* What the caller puts into its slice when it uses it again.
Fill == B(255)

\* Task t as a goroutine of run reads it once the array under t.Input has
\* been overwritten.
Overwritten(t) == [t EXCEPT !.Input = [i \in 1..Len(t.Input) |-> Fill]]

\* Task t's Input is a slice of the array of the caller's slice (Write, line
\* 110), which still holds what was written.
Aliased(t) == t.src = "in" /\ t.Input # Overwritten(t).Input

\* The caller, between two calls, overwrites the slice it passed to an
\* earlier Write.  Nothing orders these writes with the reads of the workers
\* that hash a task which points into the slice: each such read, already
\* under way or still to begin, sees the old bytes or the new ones.
Overwrite ==
  /\ pc = "idle" /\ caller = "user"
  /\ \E Q \in SUBSET {i \in 1..Len(tasks) : Aliased(tasks[i])} :
       \E W \in SUBSET {t \in workers.send : Aliased(t)} :
         /\ Q # {} \/ W # {}
         /\ tasks' = [i \in 1..Len(tasks) |->
                        IF i \in Q THEN Overwritten(tasks[i]) ELSE tasks[i]]
         /\ workers' = [workers EXCEPT
                          !.send = (@ \ W) \cup {Overwritten(t) : t \in W}]
  /\ UNCHANGED <<buffer, pageHashes, blobID, closed, capacity, chans,
                 driverVars, callerVars, histVars>>

NextReuse == Next \/ Overwrite

\* One hasher, and a caller that uses its slices again after Write.
SpecReuse == Init /\ [][NextReuse]_vars

\* ------------------------------------------------------------------ claims

\* sum is returning the first Sum of a hasher that was not Reset, and a hasher
\* before this one came to its first Sum with the same bytes written.
SameBytesAsRef ==
  /\ pc = "SumRet" /\ sumCalls = 1 /\ resets = 0
  /\ ref.h # 0 /\ ref.h < hashers
  /\ written = ref.in

\* C1: whatever the Write calls that fed a hasher its bytes, its Sum returns
\* what the package-level Sum returned for the same bytes.
ChunkingInvariance ==
  (SameBytesAsRef /\ ref.oneShot /\ caller = "user") => Last(sums) = ref.out

\* C1 witness: a hasher fed in several Writes, one of which completed a page
\* through the buffer, comes to the Sum of the whole stream that the
\* package-level Sum was given.
ChunkingInvarianceWitness ==
  /\ SameBytesAsRef /\ ref.oneShot /\ caller = "user"
  /\ Len(written) = MaxLen
  /\ \E i \in 1..Len(pagesLog) : pagesLog[i].src = "copy"

\* C2: two hashers that were written the same bytes return the same
\* identifier, whatever their parallelism and the order their workers ran in.
DeterminismUnderConcurrency ==
  SameBytesAsRef => Last(sums) = ref.out

\* C2 witness: the two hashers differ in parallelism and the stream has
\* several pages.
DeterminismUnderConcurrencyWitness ==
  /\ SameBytesAsRef
  /\ ~ref.oneShot /\ caller = "user"
  /\ ref.n # capacity
  /\ Len(pagesLog) > pagesPerBlock

\* The page hashes finishBlock has put together so far, blocks first.
RECURSIVE Flatten(_)
Flatten(ss) == IF ss = <<>> THEN <<>> ELSE Head(ss) \o Flatten(Tail(ss))

\* C3: the page hashes that finishBlock has put into its buffers, block after
\* block, are the hashes of the pages in the order they were submitted.
OrderPreservation ==
  LET got == Flatten(foldLog) \o buf
  IN  /\ Len(got) <= Len(pagesLog)
      /\ \A k \in 1..Len(got) : got[k] = Sum256(pagesLog[k].Input)
      /\ \A j \in 1..Len(foldLog) : Len(foldLog[j]) <= pagesPerBlock

\* C3 witness: finishBlock waits for the first page of a full block while the
\* hash of its last page is already there.
OrderPreservationWitness ==
  /\ pc = "finishBlock" /\ fbIdx = 1
  /\ Len(pageHashes) = pagesPerBlock /\ pagesPerBlock > 1
  /\ chans[pageHashes[1]] = <<>>
  /\ chans[pageHashes[Len(pageHashes)]] # <<>>

\* C4 (as claimed): a Write made after Sum fails.
WriteAfterSumRejected ==
  (pc = "WriteRet" /\ caller = "user" /\ finalized) => writeRet[2] # "nil"

\* C5 (as claimed): a second Sum, with nothing written in between, returns
\* what the first returned.
SecondSumSame ==
  (Len(sums) = 2 /\ ref.h = hashers /\ ref.in = written) => sums[2] = ref.out

\* C6 (as claimed): Write returns the length of its argument and no error.
WriteReturnsLen ==
  pc = "WriteRet" => writeRet = <<Len(writeArg), "nil">>

\* C7: NewParallel with a parallelism of 0 or less panics and leaves no
\* hasher, no task channel and no goroutine; with 1 or more it starts that
\* many goroutines, no more and no fewer at any later time.
ConstructionContract ==
  pc # "none" =>
    IF reqN <= 0
      THEN pc = "panic" /\ hashers = 0 /\ capacity = 0 /\ Started = 0
      ELSE pc # "panic" /\ hashers > 0 /\ capacity = reqN /\ Started = reqN

\* C7 witness: NewParallel(0) has panicked.
ConstructionContractWitness == pc = "panic" /\ reqN = 0

\* C8: the first Sum of a hasher that was written no bytes submits no page,
\* finishes one block of no pages and returns
\* SHA-256(seed || SHA-256(empty) || 0x01) || 0x00.
EmptyStream ==
  (pc = "SumRet" /\ sumCalls = 1 /\ written = <<>>) =>
    /\ pagesLog = <<>>
    /\ fbCalls = 1
    /\ foldLog = << <<>> >>
    /\ Last(sums) = <<Sum256(seed \o <<Sum256(<<>>)>> \o <<B(1)>>), B(0)>>

\* C8 witness: the user's hasher returns from the Sum of no bytes.
EmptyStreamWitness ==
  pc = "SumRet" /\ sumCalls = 1 /\ written = <<>> /\ caller = "user"

\* C9: what sum returns is 33 bytes: the SHA-256 of the blob id it found
\* followed by 0x01, and then a byte 0x00.
OutputFormat ==
  pc = "SumRet" =>
    LET r == Last(sums)
    IN  /\ ByteLen(r) = Size
        /\ r[Len(r)] = B(0)
        /\ SubSeq(r, 1, Len(r) - 1) = <<Sum256(chainAtSum \o <<B(1)>>)>>

\* C9 witness: sum returns for a stream of more than one block.
OutputFormatWitness == pc = "SumRet" /\ Len(foldLog) > 1

CeilDiv(a, b) == (a + b - 1) \div b

\* The bytes of the pages writePage was given, one byte string per page.
PageInputs == [i \in 1..Len(pagesLog) |-> pagesLog[i].Input]

\* C11: when the first Sum of a hasher returns for L bytes written, in whatever
\* chunks, ceil(L / PageSize) pages were submitted that cut the stream in
\* order, each of PageSize bytes but for a shorter, non-empty last one when
\* PageSize does not divide L; max(1, ceil(pages / pagesPerBlock)) blocks were
\* folded (a block is pagesPerBlock pages, BlockSize bytes), each of
\* pagesPerBlock page digests but for the last, which holds the pages left
\* over: there is no empty block after a full last one.
PagePartition ==
  (pc = "SumRet" /\ sumCalls = 1) =>
    LET L == Len(written)
        np == CeilDiv(L, PageSize)
        nb == IF np = 0 THEN 1 ELSE CeilDiv(np, pagesPerBlock)
    IN  /\ Len(pagesLog) = np
        /\ Flatten(PageInputs) = written
        /\ \A i \in 1..np :
             Len(pagesLog[i].Input) =
               IF i < np THEN PageSize ELSE L - (np - 1) * PageSize
        /\ Len(foldLog) = nb /\ fbCalls = nb
        /\ \A j \in 1..nb :
             Len(foldLog[j]) =
               IF j < nb THEN pagesPerBlock ELSE np - (nb - 1) * pagesPerBlock

\* C11 witness: Sum returns for a stream that fills its last block to the last
\* byte, written in more than one Write, and one block was folded.
PagePartitionWitness ==
  /\ pc = "SumRet" /\ sumCalls = 1 /\ caller = "user"
  /\ Len(written) = pagesPerBlock * PageSize
  /\ Len(foldLog) = 1
  /\ \E i \in 1..Len(pagesLog) : pagesLog[i].src = "copy"

\* The digests of the blocks folded so far, in order.
BlockDigests == [j \in 1..Len(foldLog) |-> Sum256(foldLog[j])]

\* The chain the claim describes for the block digests ds: nothing for none,
\* A1 = seed || d1, Ai = digest(A(i-1) || 0x00) || di.
RECURSIVE ChainOf(_)
ChainOf(ds) ==
  IF ds = <<>> THEN <<>>
  ELSE IF Len(ds) = 1 THEN seed \o <<ds[1]>>
  ELSE <<Sum256(ChainOf(SubSeq(ds, 1, Len(ds) - 1)) \o <<B(0)>>)>>
         \o <<ds[Len(ds)]>>

\* C12: until the first Sum has written its marker the blob id is the chain of
\* the block digests folded so far, A1 = seed || d1 and
\* Ai = digest(A(i-1) || 0x00) || di; the first Sum folds at least one block
\* and returns digest(Ak || 0x01) || 0x00.
RollingChain ==
  /\ sums = <<>> => blobID = ChainOf(BlockDigests)
  /\ (pc = "SumRet" /\ sumCalls = 1) =>
       /\ Len(foldLog) >= 1
       /\ chainAtSum = ChainOf(BlockDigests)
       /\ Last(sums) = <<Sum256(ChainOf(BlockDigests) \o <<B(1)>>), B(0)>>

\* C12 witness: the first Sum returns after more than one block was folded.
RollingChainWitness ==
  /\ pc = "SumRet" /\ sumCalls = 1 /\ caller = "user"
  /\ Len(foldLog) >= 2

\* The hasher is between two calls and Sum has not been called on it since it
\* was made or Reset.
Writable == pc = "idle" /\ ~finalized

\* C13 (as claimed): between operations on a writable hasher the blob id is
\* empty before the first fold, 60 bytes long after one fold and 32 bytes long
\* after any later fold.
ChainLengthClaimed ==
  Writable =>
    ByteLen(blobID) = IF foldLog = <<>> THEN 0
                      ELSE IF Len(foldLog) = 1 THEN 60 ELSE 32

\* C13: between operations on a writable hasher the blob id is empty before
\* the first fold, 27 + 32 = 59 bytes long after one fold (the seed and the
\* block digest) and 32 + 32 = 64 bytes long after any later fold (the digest
\* of the round before and the block digest).
ChainLength ==
  Writable =>
    ByteLen(blobID) = IF foldLog = <<>> THEN 0
                      ELSE IF Len(foldLog) = 1 THEN 59 ELSE 64

\* C13 witness: the hasher is between two Writes after its second fold.
ChainLengthWitness == Writable /\ Len(foldLog) >= 2 /\ pos < Len(data)

\* C14: on a hasher between calls (a fresh one among them) and whenever Write
\* returns, v.buffer holds fewer than PageSize bytes and v.pageHashes fewer
\* than pagesPerBlock channels; v.pageHashes never holds more than
\* pagesPerBlock, and it holds that many only while finishBlock, called by
\* writePage right after the append, is emptying it.
BufferBlockBounds ==
  /\ Len(buffer) <= PageSize
  /\ Len(pageHashes) <= pagesPerBlock
  /\ pc \in {"idle", "WriteRet"} =>
       Len(buffer) < PageSize /\ Len(pageHashes) < pagesPerBlock
  /\ Len(pageHashes) = pagesPerBlock =>
       pc = "finishBlock" /\ fbRet = "writePage"

\* C14 witness: Write returns with the buffer and the pending list one short
\* of full.
BufferBlockBoundsWitness ==
  /\ pc = "WriteRet" /\ caller = "user"
  /\ Len(buffer) = PageSize - 1
  /\ Len(pageHashes) = pagesPerBlock - 1 /\ pageHashes # <<>>

\* The caller is inside Write or Sum.
InCall == pc \notin {"none", "panic", "idle", "dropped"}

\* C15: with the goroutines scheduled fairly, every Write and every Sum
\* returns (the package-level Sum included), whatever the parallelism and the
\* length of the input, and a worker that holds a result can always deliver
\* it: its channel is there and empty.
Termination ==
  /\ InCall ~> ~InCall
  /\ [](\A t \in workers.send :
          t.Output \in DOMAIN chans /\ chans[t.Output] = <<>>)

\* C15 witness: with one worker, busy with a page, and a task waiting in the
\* queue, writePage is blocked on the full queue with more input to come.
TerminationWitness ==
  /\ pc = "writePage" /\ capacity = 1 /\ Len(tasks) = capacity
  /\ workers.send # {} /\ in # <<>>

\* C16: with parallelism N, at most N tasks wait in the queue and at most N
\* are with the workers; while N tasks are queued, writePage does not get past
\* its send, so a step taken then leaves the driver where it is and hands over
\* no page.
Backpressure ==
  /\ [](Len(tasks) <= capacity /\ Cardinality(workers.send) <= capacity)
  /\ [][(pc = "writePage" /\ Len(tasks) = capacity) =>
          (pc' = "writePage" /\ page' = page /\ pagesLog' = pagesLog
             /\ pageHashes' = pageHashes)]_vars

\* C16 witness: writePage has a page to send while N tasks are queued and N
\* are being digested.
BackpressureWitness ==
  /\ pc = "writePage"
  /\ Len(tasks) = capacity /\ Cardinality(workers.send) = capacity

\* How many values result channel c has or is about to get: the tasks for it
\* in the queue, those with a worker, and the values in its slot.
Holders(c) ==
  Cardinality({i \in 1..Len(tasks) : tasks[i].Output = c})
    + Cardinality({t \in workers.send : t.Output = c})
    + Len(chans[c])

\* The indices of v.pageHashes that finishBlock has received from.
ReadIdx == IF pc = "finishBlock" THEN 1..(fbIdx - 1) ELSE {}

\* The page whose result channel is v.pageHashes[j].
PageOf(j) == pagesLog[Len(pagesLog) - Len(pageHashes) + j]

\* C17: every result channel gets one value from one worker, the digest of
\* its own page: a channel that finishBlock has not yet received from has
\* exactly one of a queued task, a task with a worker and a value in its slot;
\* one it has received from has none of them and is not received from again;
\* the task and the value are those of the channel's page; and a worker that
\* holds a result finds the slot of its channel empty, also when the pending
\* list that held the channel was dropped by Reset.
OneShotHandles ==
  /\ \A i, j \in 1..Len(pageHashes) : pageHashes[i] = pageHashes[j] => i = j
  /\ Range(pageHashes) \subseteq DOMAIN chans
  /\ \A c \in DOMAIN chans : Len(chans[c]) <= 1
  /\ \A j \in 1..Len(pageHashes) :
       /\ Holders(pageHashes[j]) = IF j \in ReadIdx THEN 0 ELSE 1
       /\ \A v \in Range(chans[pageHashes[j]]) : v = Sum256(PageOf(j).Input)
       /\ \A t \in Range(tasks) \cup workers.send :
            t.Output = pageHashes[j] => t.Input = PageOf(j).Input
  /\ \A c \in DOMAIN chans \ Range(pageHashes) :
       Holders(c) = 1 /\ chans[c] = <<>>
  /\ \A t \in Range(tasks) \cup workers.send :
       t.Output \in DOMAIN chans /\ chans[t.Output] = <<>>

\* C17 witness: after Reset has dropped the pending list, a worker holds the
\* result of a page of that list, whose channel nothing will receive from,
\* while another channel already has its value.
OneShotHandlesWitness ==
  /\ resets > 0
  /\ \E t \in workers.send : t.Output \notin Range(pageHashes)
  /\ \E j \in 1..Len(pageHashes) : chans[pageHashes[j]] # <<>>

\* A step of a goroutine of run: they alone move between the receive, the
\* send and the return (a construction starts new ones).
WorkerStep == workers' # workers /\ hashers' = hashers

\* C18: a step of a worker leaves everything but the task queue, the result
\* channels and the worker itself as it was; it takes the first task off the
\* queue, or puts a value in the slot of the channel of the task it holds, or
\* returns.  v.buffer, v.pageHashes and v.blobID change only in steps of the
\* caller: inside Write or Sum, in Reset, or when the hasher is made.
DriverOnlyMutation ==
  [][/\ WorkerStep =>
          /\ UNCHANGED <<buffer, pageHashes, blobID, closed, capacity,
                         driverVars, callerVars, histVars>>
          /\ \/ /\ tasks # <<>> /\ tasks' = Tail(tasks) /\ chans' = chans
                /\ workers'.send = workers.send \cup {Head(tasks)}
             \/ /\ tasks' = tasks
                /\ \E t \in workers.send :
                     /\ workers'.send = workers.send \ {t}
                     /\ DOMAIN chans \ {t.Output} \subseteq DOMAIN chans'
                     /\ \A c \in DOMAIN chans' :
                          chans'[c] = IF c = t.Output THEN <<Sum256(t.Input)>>
                                      ELSE chans[c]
             \/ /\ tasks' = tasks /\ chans' = chans
                /\ workers'.exit = workers.exit + 1
     /\ <<buffer, pageHashes, blobID>>' # <<buffer, pageHashes, blobID>> =>
          /\ ~WorkerStep
          /\ \/ InCall
             \/ pc = "idle" /\ resets' = resets + 1
             \/ hashers' = hashers + 1
    ]_vars

\* C18 witness: a worker holds a task and another task is queued while the
\* caller is inside Write with bytes in the buffer, a page pending and a block
\* folded.
DriverOnlyMutationWitness ==
  /\ pc = "Write" /\ workers.send # {} /\ tasks # <<>>
  /\ buffer # <<>> /\ pageHashes # <<>> /\ blobID # <<>>

\* C19 (as claimed): whatever the caller does with its slices once Write has
\* returned, every page digest that reaches finishBlock is the digest of the
\* bytes the page held when Write was called.
ReuseAfterWriteHarmless ==
  LET got == Flatten(foldLog) \o buf
  IN  \A k \in 1..Len(got) :
        k <= Len(pagesLog) => got[k] = Sum256(pagesLog[k].Input)

\* The sequence s cut into pieces of n, the last one shorter if need be.
RECURSIVE Cut(_, _)
Cut(s, n) ==
  IF s = <<>> THEN <<>>
  ELSE IF Len(s) <= n THEN <<s>>
  ELSE <<SubSeq(s, 1, n)>> \o Cut(SubSeq(s, n + 1, Len(s)), n)

\* The identifier of the byte string s as the claims describe it: the pages
\* of s, their digests in blocks of pagesPerBlock (one empty block for no
\* pages), the chain of the block digests, and the last round.
Ident(s) ==
  LET ps == Cut(s, PageSize)
      ds == [i \in 1..Len(ps) |-> Sum256(ps[i])]
      bs == IF ds = <<>> THEN << <<>> >> ELSE Cut(ds, pagesPerBlock)
      bd == [j \in 1..Len(bs) |-> Sum256(bs[j])]
  IN  <<Sum256(ChainOf(bd) \o <<B(1)>>), B(0)>>

\* C20: Reset, whatever was buffered, pending or summed before, leaves
\* v.buffer, v.pageHashes and v.blobID empty; the first Sum after it returns
\* the identifier of the bytes written since, the one a new hasher returns for
\* them; and no result of a page submitted before the Reset enters the chain:
\* Reset leaves no result behind in a channel, and a channel that comes to the
\* pending list is a new one, none of those left over.
ResetRestoresFresh ==
  /\ []((pc = "SumRet" /\ sumCalls = 1) => Last(sums) = Ident(written))
  /\ [][resets' = resets + 1 =>
          /\ buffer' = <<>> /\ pageHashes' = <<>> /\ blobID' = <<>>
          /\ \A c \in DOMAIN chans' : chans'[c] = <<>>]_vars
  /\ [][\A j \in 1..Len(pageHashes') :
          pageHashes'[j] \in Range(pageHashes)
            \/ pageHashes'[j] \notin DOMAIN chans]_vars

\* C20 witness: the first Sum after a Reset returns for a stream of several
\* pages while a worker still holds a page submitted before the Reset.
ResetRestoresFreshWitness ==
  /\ pc = "SumRet" /\ sumCalls = 1 /\ resets > 0
  /\ Len(pagesLog) > 1
  /\ workers.send # {}

====
